---------------------------- MODULE Spec2Model ----------------------------
(***************************************************************************)
(* Model of the notebook 2_custom_autoencoder.ipynb: the train/test split  *)
(* and normal-only filter, the load-or-generate cell of the training       *)
(* matrix, the evaluation loop that scores every test      *)
(* signal through the deployed autoencoder, the threshold sweep, the       *)
(* evaluation at the operating threshold, the persisted results table and  *)
(* the final metrics.                                                      *)
(*                                                                         *)
(* Numbers.  Thresholds are counted in units of 1/40 (0.025), the coarsest *)
(* unit in which 5.0, 10.0, 0.50 and 6.275 are all whole.  A mean (the     *)
(* reconstruction error, a metric) is the exact fraction                   *)
(* [num |-> n, den |-> d]; 0/0 is numpy's nan.  Floating-point rounding is *)
(* not modelled.                                                           *)
(*                                                                         *)
(* Not in the notebook file: sound_tools.extract_signal_features,          *)
(* sound_tools.generate_dataset, utils.generate_error_types (all modelled  *)
(* from the specification), the                                            *)
(* audio files and the hosted model (inputs).                              *)
(***************************************************************************)
EXTENDS Integers, Sequences, FiniteSets, TLC

VARIABLES
    pc,                     \* which cell / loop iteration runs next
    normal_files,           \* utils.build_files_list: paths of normal signals
    abnormal_files,         \* utils.build_files_list: paths of abnormal signals
    train_files,
    train_labels,
    test_files,
    test_labels,
    sigT,                   \* per path: spectrogram time steps T of its signal
    n_mels,
    frames,
    n_fft,
    hop_length,
    train_data_pkl,         \* the file data/interim/train_data.pkl
    train_data,
    index,                  \* evaluation loop: 1-based position in test_files
    eval_features,
    prediction,
    reconstruction_errors,
    output_dim,             \* width of the rows the deployed model returns
    threshold_min,
    threshold_max,
    threshold_step,
    thresholds,
    swept,                  \* number of thresholds the sweep loop has done
    cur_th,                 \* the threshold last applied to df
    df,
    FN,
    FP,
    tp,
    tn,
    fn,
    fp,
    csv,                    \* results_autoencoder.csv
    precision,
    recall,
    accuracy,
    f1_score

vars == << pc, normal_files, abnormal_files, train_files, train_labels,
           test_files, test_labels, sigT, n_mels, frames, n_fft, hop_length,
           train_data_pkl, train_data, index,
           eval_features, prediction, reconstruction_errors, output_dim,
           threshold_min, threshold_max, threshold_step, thresholds, swept,
           cur_th, df, FN, FP, tp, tn, fn, fp, csv,
           precision, recall, accuracy, f1_score >>

splitVars == << normal_files, abnormal_files, train_files, train_labels >>
evalVars  == << index, eval_features, prediction, reconstruction_errors >>
sweepVars == << thresholds, swept, cur_th, df, FN, FP >>
finalVars == << tp, tn, fn, fp, csv, precision, recall, accuracy, f1_score >>
paramVars == << sigT, n_mels, frames, n_fft, hop_length, output_dim,
                threshold_min, threshold_max, threshold_step >>
trainVars == << train_data_pkl, train_data >>

-----------------------------------------------------------------------------
(* Bounds of the model *)

MaxFiles    == 3    \* test signals of an evaluation run
MaxNormal   == 5    \* normal signals of a dataset that is split
MaxAbnormal == 3    \* abnormal signals of a dataset that is split
MaxMels     == 3    \* n_mels of a feature extraction
MaxFrames   == 3    \* frames of a feature extraction
MaxT        == 6    \* spectrogram time steps of a signal
EvalMels    == 2    \* n_mels of an evaluation run (64 in the notebook)
EvalFrames  == 2    \* frames of an evaluation run (5 in the notebook)

(* The notebook's threshold settings, in units of 1/40. *)
NotebookThresholdMin  == 200    \* threshold_min = 5.0
NotebookThresholdMax  == 400    \* threshold_max = 10.0
NotebookThresholdStep == 20     \* threshold_step = 0.50
th                    == 251    \* th = 6.275

(* The notebook's spectrogram settings. *)
NotebookNFft      == 1024   \* n_fft = 1024
NotebookHopLength == 512    \* hop_length = 512

NaN == 0 - 1        \* a dataframe cell that holds no value

-----------------------------------------------------------------------------
(* Arithmetic helpers *)

RECURSIVE SumSeq(_)
SumSeq(s) == IF s = << >> THEN 0 ELSE Head(s) + SumSeq(Tail(s))

\* ceil(a / b) for b > 0
CeilDiv(a, b) == IF a <= 0 THEN 0 ELSE ((a + b - 1) \div b)

Range(s) == { s[i] : i \in 1..Len(s) }

\* the elements of a set of integers, ascending
RECURSIVE SortedSeq(_)
SortedSeq(S) ==
    IF S = {} THEN << >>
    ELSE LET m == CHOOSE x \in S : \A y \in S : x <= y
         IN  << m >> \o SortedSeq(S \ {m})

-----------------------------------------------------------------------------
(* Feature extraction: sound_tools.extract_signal_features, modelled from   *)
(* the specification (section 4.1).                                         *)

\* The log-Mel spectrogram of a signal with T time steps: n bands by T
\* steps.  Band b at step t holds 10*t + b, so every cell is distinct.
LogMelSpectrogram(n, T) == [ b \in 1..n |-> [ t \in 1..T |-> 10 * t + b ] ]

\* Row i: for f = 0..frames-1 in increasing order, column log_S[:, i+f].
FeatureRow(log_S, n, fr, i) ==
    [ c \in 1..(n * fr) |->
        log_S[((c - 1) % n) + 1][i + ((c - 1) \div n)] ]

\* A matrix is [rows |-> sequence of rows, ncols |-> its column count].
ExtractSignalFeatures(log_S, T, n, fr) ==
    LET T_out == T - fr + 1
    IN  IF T_out < 1
        THEN [ rows |-> << >>, ncols |-> n * fr ]
        ELSE [ rows  |-> [ i \in 1..T_out |-> FeatureRow(log_S, n, fr, i) ],
               ncols |-> n * fr ]

\* The same call with the two window arguments exchanged.
EvalFeaturesOfSwapped(T, nm, fr) ==
    ExtractSignalFeatures(LogMelSpectrogram(fr, T), T, fr, nm)

\* The call of lines 335-342 on a signal of T time steps:
\* extract_signal_features(signal, sr, n_mels=n_mels, frames=frames, ...).
EvalFeaturesOf(T, nm, fr) ==
    ExtractSignalFeatures(LogMelSpectrogram(nm, T), T, nm, fr)

-----------------------------------------------------------------------------
(* numpy: shapes, broadcasting and the mean squared error of line 348 *)

Incompatible == 0 - 1

\* np.asarray of the 'predictions' list: an empty list is the 1-D array of
\* shape (0,), a list of R rows of W numbers has shape (R, W).
ListShape(rows) ==
    IF rows = << >> THEN << 0 >> ELSE << Len(rows), Len(rows[1]) >>

MatrixShape(m) == << Len(m.rows), m.ncols >>

\* One axis of numpy's broadcasting rule.
BroadcastDim(a, b) ==
    IF a = b THEN a
    ELSE IF a = 1 THEN b
    ELSE IF b = 1 THEN a
    ELSE Incompatible

\* The shape of (2-D array of shape sa) - (array of shape sb, 1-D or 2-D):
\* shapes are aligned on their last axis, a missing leading axis counts 1.
BroadcastShape(sa, sb) ==
    LET sb2 == IF Len(sb) = 1 THEN << 1, sb[1] >> ELSE sb
    IN  << BroadcastDim(sa[1], sb2[1]), BroadcastDim(sa[2], sb2[2]) >>

Broadcastable(sa, sb) ==
    LET s == BroadcastShape(sa, sb)
    IN  s[1] # Incompatible /\ s[2] # Incompatible

\* Cell (i, j) of an operand stretched to the broadcast shape.
Stretched(rows, shape, i, j) ==
    rows[IF shape[1] = 1 THEN 1 ELSE i][IF shape[2] = 1 THEN 1 ELSE j]

\* np.mean(np.mean(np.square(eval_features - prediction), axis=1)):
\* every row has the same number of cells, so the mean of the row means is
\* the sum of all squares over the number of cells; no cells, nan (0/0).
MeanSquaredError(feat, pred) ==
    LET sa == MatrixShape(feat)
        sb == LET s == ListShape(pred)
              IN  IF Len(s) = 1 THEN << 1, s[1] >> ELSE s
        sr == BroadcastShape(sa, sb)
        Sq(i, j) == LET x == Stretched(feat.rows, sa, i, j)
                                - Stretched(pred, sb, i, j)
                    IN  x * x
    IN  IF sr[1] * sr[2] = 0
        THEN [ num |-> 0, den |-> 0 ]
        ELSE [ num |-> SumSeq([ i \in 1..sr[1] |->
                                  SumSeq([ j \in 1..sr[2] |-> Sq(i, j) ]) ]),
               den |-> sr[1] * sr[2] ]

-----------------------------------------------------------------------------
(* The hosted model: tf_predictor.predict(eval_features)['predictions'].    *)
(* The endpoint answers a request of R rows with a list of R rows (an       *)
(* empty list for an empty request), each of output_dim numbers, the width  *)
(* of the deployed model's output layer; or the call raises.  Every cell    *)
(* returned is a finite number, off its input by d (the cells past the      *)
(* input's width repeat its last column).                                   *)

Deltas == { 2, 3, 4 }

Reconstruction(feat, W, d) ==
    [ i \in 1..Len(feat.rows) |->
        [ j \in 1..W |->
            feat.rows[i][IF j <= feat.ncols THEN j ELSE feat.ncols] + d ] ]

-----------------------------------------------------------------------------
(* Comparisons of a reconstruction error with a threshold (units of 1/40): *)
(* both are false of nan.                                                   *)

\* < in place of <=
LessEqualStrict(err, t) == err.den > 0 /\ err.num * 40 < t * err.den

LessEqual(err, t) == err.den > 0 /\ err.num * 40 <= t * err.den

Greater(err, t) == err.den > 0 /\ err.num * 40 > t * err.den

\* The two assignments with 0.0 and 1.0 exchanged.
ApplyMasksSwapped(d, t) ==
    [ d EXCEPT !.Prediction =
        [ i \in 1..Len(d.Prediction) |->
            IF LessEqual(d.ReconstructionError[i], t) THEN 1
            ELSE IF Greater(d.ReconstructionError[i], t) THEN 0
            ELSE d.Prediction[i] ] ]

\* The first assignment alone.
ApplyMasksOnlyNormal(d, t) ==
    [ d EXCEPT !.Prediction =
        [ i \in 1..Len(d.Prediction) |->
            IF LessEqual(d.ReconstructionError[i], t) THEN 0
            ELSE d.Prediction[i] ] ]

\* df.loc[df['Reconstruction Error'] <= t, 'Prediction'] = 0.0
\* df.loc[df['Reconstruction Error'] >  t, 'Prediction'] = 1.0
ApplyMasks(d, t) ==
    LET p0 == [ i \in 1..Len(d.Prediction) |->
                  IF LessEqual(d.ReconstructionError[i], t)
                  THEN 0 ELSE d.Prediction[i] ]
        p1 == [ i \in 1..Len(p0) |->
                  IF Greater(d.ReconstructionError[i], t)
                  THEN 1 ELSE p0[i] ]
    IN  [ d EXCEPT !.Prediction = p1 ]

\* utils.generate_error_types, modelled from the specification (4.4):
\* TP = label 1 and prediction 1, TN = label 0 and prediction 0,
\* FP = label 0 and prediction 1, FN = label 1 and prediction 0.
Flag(d, label, pred) ==
    [ i \in 1..Len(d.Prediction) |->
        IF d.GroundTruth[i] = label /\ d.Prediction[i] = pred THEN 1 ELSE 0 ]

GenerateErrorTypes(d) ==
    [ d EXCEPT !.TP = Flag(d, 1, 1), !.TN = Flag(d, 0, 0),
               !.FP = Flag(d, 0, 1), !.FN = Flag(d, 1, 0) ]

\* np.arange(threshold_min, threshold_max, threshold_step)
SweepThresholdsExclusive(lo, hi, step) ==
    [ i \in 1..(IF hi - lo <= 0 THEN 0 ELSE ((hi - lo + step - 1) \div step))
        |-> lo + (i - 1) * step ]

\* np.arange(start, stop, step) for step > 0: ceil((stop - start) / step)
\* values start, start + step, ...
NpArange(start, stop, step) ==
    [ i \in 1..CeilDiv(stop - start, step) |-> start + (i - 1) * step ]

\* Line 441.
SweepThresholds(lo, hi, step) == NpArange(lo, hi + step, step)

\* numpy's a / b on integer sums: the fraction, nan when a = b = 0.
Divide(a, b) == [ num |-> a, den |-> b ]

\* 2 * precision * recall / (precision + recall); nan in, nan out.
F1Score(p, r) ==
    IF p.den = 0 \/ r.den = 0
    THEN [ num |-> 0, den |-> 0 ]
    ELSE [ num |-> 2 * p.num * r.num,
           den |-> p.num * r.den + r.num * p.den ]

\* 1 - column
Flip(col) == [ i \in 1..Len(col) |-> IF col[i] = NaN THEN NaN ELSE 1 - col[i] ]

-----------------------------------------------------------------------------
(* The evaluation run: cells "Apply model on a test dataset" to the metrics *)

EmptyFrame ==
    [ Signal |-> << >>, GroundTruth |-> << >>, Prediction |-> << >>,
      ReconstructionError |-> << >>,
      TP |-> << >>, TN |-> << >>, FP |-> << >>, FN |-> << >> ]

NoMatrix == [ rows |-> << >>, ncols |-> 0 ]
NoValue  == [ num |-> 0, den |-> 1 ]

\* train_data.pkl does not exist, train_data is not assigned.
NoFile == [ exists |-> FALSE, content |-> << >> ]
NoTrainData == << >>

TrainBlank ==
    /\ train_data_pkl = NoFile
    /\ train_data = NoTrainData

\* What no evaluation run has touched yet.
EvalBlank ==
    /\ index = 0
    /\ eval_features = NoMatrix
    /\ prediction = << >>
    /\ reconstruction_errors = << >>
    /\ thresholds = << >>
    /\ swept = 0
    /\ cur_th = 0
    /\ df = EmptyFrame
    /\ FN = << >>
    /\ FP = << >>
    /\ tp = 0 /\ tn = 0 /\ fn = 0 /\ fp = 0
    /\ csv = EmptyFrame
    /\ precision = NoValue /\ recall = NoValue
    /\ accuracy = NoValue /\ f1_score = NoValue

SplitBlank ==
    /\ normal_files = << >>
    /\ abnormal_files = << >>
    /\ train_files = << >>
    /\ train_labels = << >>

\* The state before the evaluation loop: a test split of 1..MaxFiles
\* signals, each normal (0) or abnormal (1), each too short for one feature
\* row (T = frames - 1) or long enough for two (T = frames + 1); a deployed
\* model whose output rows are as wide as, narrower or wider than the
\* feature rows; the notebook's threshold settings.
Init ==
    /\ pc = "eval"
    /\ SplitBlank
    /\ EvalBlank
    /\ n_mels = EvalMels
    /\ frames = EvalFrames
    /\ n_fft = NotebookNFft
    /\ hop_length = NotebookHopLength
    /\ TrainBlank
    /\ \E n \in 1..MaxFiles :
         /\ test_files = [ i \in 1..n |-> i ]
         /\ test_labels \in [ 1..n -> {0, 1} ]
         /\ sigT \in [ 1..n -> { EvalFrames - 1, EvalFrames + 1 } ]
    /\ output_dim \in { EvalMels * EvalFrames, 1, EvalMels * EvalFrames + 1 }
    /\ threshold_min = NotebookThresholdMin
    /\ threshold_max = NotebookThresholdMax
    /\ threshold_step = NotebookThresholdStep

\* One iteration of the loop over test_files (lines 330-349): load the
\* signal, extract its features, ask the endpoint for the reconstruction,
\* append the mean squared error.  The endpoint call may raise; the
\* subtraction raises ValueError when the two shapes do not broadcast.
\* Either exception ends the cell.
EvalStep ==
    /\ pc = "eval"
    /\ index < Len(test_files)
    /\ LET i     == index + 1
           T     == sigT[test_files[i]]
           feat  == EvalFeaturesOf(T, n_mels, frames)
       IN  /\ index' = i
           /\ eval_features' = feat
           /\ \/ /\ prediction' = prediction
                 /\ reconstruction_errors' = reconstruction_errors
                 /\ pc' = "aborted"
              \/ \E d \in Deltas :
                   LET out == Reconstruction(feat, output_dim, d)
                   IN  /\ prediction' = out
                       /\ IF Broadcastable(MatrixShape(feat), ListShape(out))
                          THEN /\ reconstruction_errors' =
                                     Append(reconstruction_errors,
                                            MeanSquaredError(feat, out))
                               /\ pc' = IF i = Len(test_files)
                                        THEN "frame" ELSE "eval"
                          ELSE /\ reconstruction_errors' = reconstruction_errors
                               /\ pc' = "aborted"
    /\ UNCHANGED << splitVars, sweepVars, finalVars, paramVars, trainVars,
                    test_files, test_labels >>

\* Lines 441-448: the thresholds, the results dataframe, the empty lists.
BuildFrame ==
    /\ pc = "frame"
    /\ thresholds' = SweepThresholds(threshold_min, threshold_max,
                                     threshold_step)
    /\ df' = [ EmptyFrame EXCEPT
                 !.Signal = test_files,
                 !.GroundTruth = test_labels,
                 !.Prediction = [ i \in 1..Len(test_files) |-> NaN ],
                 !.ReconstructionError = reconstruction_errors ]
    /\ FN' = << >>
    /\ FP' = << >>
    /\ swept' = 0
    /\ pc' = "sweep"
    /\ UNCHANGED << splitVars, evalVars, finalVars, paramVars, trainVars, cur_th,
                    test_files, test_labels >>

\* One iteration of the sweep loop (lines 450-455).
SweepStep ==
    /\ pc = "sweep"
    /\ swept < Len(thresholds)
    /\ LET t  == thresholds[swept + 1]
           d2 == GenerateErrorTypes(ApplyMasks(df, t))
       IN  /\ df' = d2
           /\ cur_th' = t
           /\ FN' = Append(FN, SumSeq(d2.FN))
           /\ FP' = Append(FP, SumSeq(d2.FP))
    /\ swept' = swept + 1
    /\ pc' = IF swept + 1 = Len(thresholds) THEN "apply" ELSE "sweep"
    /\ UNCHANGED << splitVars, evalVars, finalVars, paramVars, trainVars, thresholds,
                    test_files, test_labels >>

\* Lines 473-481: the predictions and the four counts at th.
ApplyThreshold ==
    /\ pc = "apply"
    /\ LET d2 == GenerateErrorTypes(ApplyMasks(df, th))
       IN  /\ df' = d2
           /\ tp' = SumSeq(d2.TP)
           /\ tn' = SumSeq(d2.TN)
           /\ fn' = SumSeq(d2.FN)
           /\ fp' = SumSeq(d2.FP)
    /\ cur_th' = th
    /\ pc' = "flip"
    /\ UNCHANGED << splitVars, evalVars, paramVars, trainVars, thresholds, swept, FN, FP,
                    csv, precision, recall, accuracy, f1_score,
                    test_files, test_labels >>

\* Lines 483-486: both label columns are replaced by 1 - column before the
\* confusion matrix is printed.
FlipLabels ==
    /\ pc = "flip"
    /\ df' = [ df EXCEPT !.GroundTruth = Flip(df.GroundTruth),
                         !.Prediction = Flip(df.Prediction) ]
    /\ pc' = "save"
    /\ UNCHANGED << splitVars, evalVars, finalVars, paramVars, trainVars, thresholds,
                    swept, cur_th, FN, FP, test_files, test_labels >>

\* Line 495: df.to_csv.
SaveResults ==
    /\ pc = "save"
    /\ csv' = df
    /\ pc' = "metrics"
    /\ UNCHANGED << splitVars, evalVars, sweepVars, paramVars, trainVars,
                    tp, tn, fn, fp, precision, recall, accuracy, f1_score,
                    test_files, test_labels >>

\* Lines 504-507.
ComputeMetrics ==
    /\ pc = "metrics"
    /\ precision' = Divide(tp, tp + fp)
    /\ recall' = Divide(tp, tp + fn)
    /\ accuracy' = Divide(tp + tn, tp + tn + fp + fn)
    /\ f1_score' = F1Score(Divide(tp, tp + fp), Divide(tp, tp + fn))
    /\ pc' = "done"
    /\ UNCHANGED << splitVars, evalVars, sweepVars, paramVars, trainVars,
                    tp, tn, fn, fp, csv, test_files, test_labels >>

Next ==
    \/ EvalStep
    \/ BuildFrame
    \/ SweepStep
    \/ ApplyThreshold
    \/ FlipLabels
    \/ SaveResults
    \/ ComputeMetrics

Spec == Init /\ [][Next]_vars

-----------------------------------------------------------------------------
(* The same run under other threshold settings: any threshold_min <=       *)
(* threshold_max and threshold_step > 0 from a small grid, the model's     *)
(* output as wide as the features.                                          *)

SweepFiles == 2     \* test signals of a run with varied threshold settings
MaxSpan    == 6     \* threshold_max - threshold_min, in tens of units

InitSweep ==
    /\ pc = "eval"
    /\ SplitBlank
    /\ EvalBlank
    /\ n_mels = EvalMels
    /\ frames = EvalFrames
    /\ n_fft = NotebookNFft
    /\ hop_length = NotebookHopLength
    /\ TrainBlank
    /\ \E n \in 1..SweepFiles :
         /\ test_files = [ i \in 1..n |-> i ]
         /\ test_labels \in [ 1..n -> {0, 1} ]
         /\ sigT \in [ 1..n -> { EvalFrames - 1, EvalFrames + 1 } ]
    /\ output_dim = EvalMels * EvalFrames
    /\ threshold_min \in { NotebookThresholdMin - 40, NotebookThresholdMin }
    /\ threshold_step \in { NotebookThresholdStep, NotebookThresholdStep + 10 }
    /\ \E j \in 0..MaxSpan : threshold_max = threshold_min + 10 * j

SpecSweep == InitSweep /\ [][Next]_vars

-----------------------------------------------------------------------------
(* Feature extraction on its own: every n_mels, frames and T in bounds.    *)

InitFeatures ==
    /\ pc = "extract"
    /\ SplitBlank
    /\ EvalBlank
    /\ n_mels \in 1..MaxMels
    /\ frames \in 1..MaxFrames
    /\ n_fft = NotebookNFft
    /\ hop_length = NotebookHopLength
    /\ TrainBlank
    /\ test_files = << 1 >>
    /\ test_labels = << 0 >>
    /\ sigT \in [ {1} -> 0..MaxT ]
    /\ output_dim = 1
    /\ threshold_min = NotebookThresholdMin
    /\ threshold_max = NotebookThresholdMax
    /\ threshold_step = NotebookThresholdStep

ExtractCall ==
    /\ pc = "extract"
    /\ eval_features' = EvalFeaturesOf(sigT[test_files[1]], n_mels, frames)
    /\ pc' = "extracted"
    /\ UNCHANGED << splitVars, sweepVars, finalVars, paramVars, trainVars,
                    test_files, test_labels,
                    index, prediction, reconstruction_errors >>

NextFeatures == ExtractCall

SpecFeatures == InitFeatures /\ [][NextFeatures]_vars

-----------------------------------------------------------------------------
(* The split cell (lines 135-164).                                          *)

\* train_test_split(train_size=0.8): n_train = floor(0.8 * n), the rest is
\* the test split.
NTrain(n) == (4 * n) \div 5

\* sklearn refuses a stratified split when a class has fewer than 2
\* members or a side of the split has fewer samples than there are classes.
SplitValid(nN, nA) ==
    /\ nN >= 2
    /\ nA >= 2
    /\ NTrain(nN + nA) >= 2
    /\ (nN + nA) - NTrain(nN + nA) >= 2

\* stratify=y: the training split takes of each class its share of n_train,
\* rounded down; a sample left over goes to the class with the larger
\* fractional part, to either on a tie.  The set of possible
\* << normal, abnormal >> training counts.
TrainCounts(nN, nA) ==
    LET n      == nN + nA
        nt     == NTrain(n)
        floorN == (nN * nt) \div n
        floorA == (nA * nt) \div n
        remN   == (nN * nt) % n
        remA   == (nA * nt) % n
        need   == nt - floorN - floorA
    IN  IF need = 0 THEN { << floorN, floorA >> }
        ELSE   (IF remN >= remA THEN { << floorN + 1, floorA >> } ELSE {})
          \cup (IF remA >= remN THEN { << floorN, floorA + 1 >> } ELSE {})

Zeros(n) == [ i \in 1..n |-> 0 ]

\* The training split left as it is.
KeepAll(files, abnormal) == files

\* train_files = [f for f in train_files if f not in abnormal_files]
KeepNormal(files, abnormal) ==
    LET NotAbnormal(f) == f \notin Range(abnormal)
    IN  SelectSeq(files, NotAbnormal)

\* Datasets of up to MaxNormal normal and MaxAbnormal abnormal paths;
\* paths are numbered, the normal ones first.
InitSplit ==
    /\ pc = "split"
    /\ EvalBlank
    /\ \E nN \in 1..MaxNormal, nA \in 1..MaxAbnormal :
         /\ normal_files = [ i \in 1..nN |-> i ]
         /\ abnormal_files = [ i \in 1..nA |-> nN + i ]
    /\ train_files = << >>
    /\ train_labels = << >>
    /\ test_files = << >>
    /\ test_labels = << >>
    /\ sigT = << >>
    /\ n_mels = EvalMels
    /\ frames = EvalFrames
    /\ n_fft = NotebookNFft
    /\ hop_length = NotebookHopLength
    /\ TrainBlank
    /\ output_dim = EvalMels * EvalFrames
    /\ threshold_min = NotebookThresholdMin
    /\ threshold_max = NotebookThresholdMax
    /\ threshold_step = NotebookThresholdStep

\* Lines 141-146: a stratified shuffled split.  Which paths land on which
\* side is the shuffle's choice; each side is listed in ascending path
\* order, the order within a side is not modelled.
SplitFiles ==
    /\ pc = "split"
    /\ SplitValid(Len(normal_files), Len(abnormal_files))
    /\ \E c \in TrainCounts(Len(normal_files), Len(abnormal_files)) :
       \E trN \in SUBSET Range(normal_files) :
       \E trA \in SUBSET Range(abnormal_files) :
         /\ Cardinality(trN) = c[1]
         /\ Cardinality(trA) = c[2]
         /\ train_files' = SortedSeq(trN \cup trA)
         /\ test_files' = SortedSeq((Range(normal_files) \ trN)
                                    \cup (Range(abnormal_files) \ trA))
         /\ train_labels' =
              [ i \in 1..(c[1] + c[2]) |->
                  IF SortedSeq(trN \cup trA)[i] \in trA THEN 1 ELSE 0 ]
         /\ test_labels' =
              LET te == SortedSeq((Range(normal_files) \ trN)
                                  \cup (Range(abnormal_files) \ trA))
              IN  [ i \in 1..Len(te) |->
                      IF te[i] \in Range(abnormal_files) THEN 1 ELSE 0 ]
    /\ pc' = "filter"
    /\ UNCHANGED << normal_files, abnormal_files, evalVars, sweepVars,
                    finalVars, paramVars, trainVars >>

\* train_test_split raises ValueError: the cell ends.
SplitRejected ==
    /\ pc = "split"
    /\ ~ SplitValid(Len(normal_files), Len(abnormal_files))
    /\ pc' = "split_error"
    /\ UNCHANGED << splitVars, evalVars, sweepVars, finalVars, paramVars, trainVars,
                    test_files, test_labels >>

\* Lines 162-164: keep the normal training paths, relabel them all 0.
FilterTrain ==
    /\ pc = "filter"
    /\ train_files' = KeepNormal(train_files, abnormal_files)
    /\ train_labels' = Zeros(Len(KeepNormal(train_files, abnormal_files)))
    /\ pc' = "split_done"
    /\ UNCHANGED << normal_files, abnormal_files, evalVars, sweepVars,
                    finalVars, paramVars, trainVars, test_files, test_labels >>

NextSplit ==
    \/ SplitFiles
    \/ SplitRejected
    \/ FilterTrain

SpecSplit == InitSplit /\ [][NextSplit]_vars

-----------------------------------------------------------------------------
(* The training-data cell (lines 181-193) over successive sessions of the   *)
(* notebook.  data/interim/train_data.pkl outlives a session; the feature   *)
(* engineering parameters are whatever cell 106-110 holds in the session.   *)

\* The four parameters both extraction calls are given.
FeatureParameters(nm, fr, nf, hl) ==
    [ n_mels |-> nm, frames |-> fr, n_fft |-> nf, hop_length |-> hl ]

RECURSIVE StackRows(_, _, _)
StackRows(files, nm, fr) ==
    IF files = << >> THEN << >>
    ELSE EvalFeaturesOf(sigT[Head(files)], nm, fr).rows
            \o StackRows(Tail(files), nm, fr)

\* sound_tools.generate_dataset, modelled from the specification (4.2):
\* the feature rows of every path, stacked.  made_with is bookkeeping, not
\* part of the array: the parameters of the call that produced it.
GenerateDataset(files, nm, fr, nf, hl) ==
    [ rows      |-> StackRows(files, nm, fr),
      ncols     |-> nm * fr,
      made_with |-> FeatureParameters(nm, fr, nf, hl) ]

\* A first session: no train_data.pkl yet, one training and one test
\* signal, any parameters in bounds.
InitTrain ==
    /\ pc = "train_data"
    /\ SplitBlank
    /\ EvalBlank
    /\ TrainBlank
    /\ n_mels \in 1..MaxMels
    /\ frames \in 1..MaxFrames
    /\ n_fft \in { NotebookNFft, 2 * NotebookNFft }
    /\ hop_length \in { NotebookHopLength, 2 * NotebookHopLength }
    /\ test_files = << 2 >>
    /\ test_labels = << 0 >>
    /\ sigT = [ f \in {1, 2} |-> MaxT ]
    /\ output_dim = 1
    /\ threshold_min = NotebookThresholdMin
    /\ threshold_max = NotebookThresholdMax
    /\ threshold_step = NotebookThresholdStep

\* Lines 181-193: load train_data.pkl when it exists, else generate the
\* training matrix from the training files (path 1) with the session's
\* parameters and save it.
TrainDataCell ==
    /\ pc = "train_data"
    /\ \/ /\ train_data_pkl.exists
          /\ train_data' = train_data_pkl.content
          /\ train_data_pkl' = train_data_pkl
       \/ /\ ~ train_data_pkl.exists
          /\ train_data' =
               GenerateDataset(<< 1 >>, n_mels, frames, n_fft, hop_length)
          /\ train_data_pkl' =
               [ exists  |-> TRUE,
                 content |-> GenerateDataset(<< 1 >>, n_mels, frames,
                                             n_fft, hop_length) ]
    /\ pc' = "extract"
    /\ UNCHANGED << splitVars, evalVars, sweepVars, finalVars, paramVars,
                    test_files, test_labels >>

\* A later session: the kernel starts empty, cell 106-110 may have been
\* edited, the files on disk are as the last session left them.
NewSession ==
    /\ pc = "extracted"
    /\ n_mels' \in 1..MaxMels
    /\ frames' \in 1..MaxFrames
    /\ n_fft' \in { NotebookNFft, 2 * NotebookNFft }
    /\ hop_length' \in { NotebookHopLength, 2 * NotebookHopLength }
    /\ train_data' = NoTrainData
    /\ eval_features' = NoMatrix
    /\ pc' = "train_data"
    /\ UNCHANGED << splitVars, sweepVars, finalVars, train_data_pkl,
                    sigT, output_dim, threshold_min, threshold_max,
                    threshold_step, test_files, test_labels,
                    index, prediction, reconstruction_errors >>

NextTrain ==
    \/ TrainDataCell
    \/ ExtractCall
    \/ NewSession

SpecTrain == InitTrain /\ [][NextTrain]_vars

-----------------------------------------------------------------------------
(* Properties *)

Rows == 1..Len(df.Signal)

Max(a, b) == IF a >= b THEN a ELSE b

\* df's Prediction column is the one the threshold cur_th produced.
ThresholdApplied ==
    \/ pc \in { "sweep", "apply" } /\ swept >= 1
    \/ pc = "flip"

SweepFinished == pc \in { "apply", "flip", "save", "metrics", "done" }

ErrAtMost(i, t) ==
    df.ReconstructionError[i].num * 40 <= t * df.ReconstructionError[i].den

\* C1: at every threshold applied (each threshold of the sweep, then th),
\* every row's prediction is 0 or 1, it is 0 exactly when the row's
\* reconstruction error is <= the threshold and 1 exactly when it is above;
\* an error equal to the threshold is predicted 0.
C1_DecisionRule ==
    ThresholdApplied =>
        \A i \in Rows :
            /\ df.Prediction[i] \in { 0, 1 }
            /\ (df.Prediction[i] = 0) <=> ErrAtMost(i, cur_th)
            /\ (df.Prediction[i] = 1) <=> ~ ErrAtMost(i, cur_th)

\* A row whose error equals the applied threshold, predicted 0, beside a
\* row predicted 1.
C1_Witness ==
    /\ ThresholdApplied
    /\ \E i \in Rows :
         /\ df.ReconstructionError[i].num * 40
              = cur_th * df.ReconstructionError[i].den
         /\ df.Prediction[i] = 0
    /\ \E j \in Rows : df.Prediction[j] = 1

\* The number of rows with the given label whose error is above t.
CountAbove(label, t) ==
    Cardinality({ i \in Rows : test_labels[i] = label /\ ~ ErrAtMost(i, t) })

CountAtMost(label, t) ==
    Cardinality({ i \in Rows : test_labels[i] = label /\ ErrAtMost(i, t) })

SweepEntries ==
    /\ Len(FP) = swept
    /\ Len(FN) = swept
    /\ SweepFinished => swept = Len(thresholds)
    /\ \A i \in 1..swept :
         /\ thresholds[i] = threshold_min + (i - 1) * threshold_step
         /\ FP[i] = CountAbove(0, thresholds[i])
         /\ FN[i] = CountAtMost(1, thresholds[i])
    /\ \A i \in 1..(Len(thresholds) - 1) : thresholds[i] < thresholds[i + 1]
    /\ Len(thresholds) >= 1 => thresholds[1] = threshold_min
    /\ \A i \in 1..Len(thresholds) :
         thresholds[i] < threshold_max + threshold_step

C3_Monotone ==
    /\ \A i \in 1..(Len(FP) - 1) : FP[i + 1] <= FP[i]
    /\ \A i \in 1..(Len(FN) - 1) : FN[i + 1] >= FN[i]

\* A finished sweep along which FP fell and FN rose.
C3_Witness ==
    /\ SweepFinished
    /\ \E i \in 1..(Len(FP) - 1) : FP[i + 1] < FP[i]
    /\ \E i \in 1..(Len(FN) - 1) : FN[i + 1] > FN[i]

\* C4: at every threshold the four error-type columns partition the rows
\* of the results table, and so do the counts taken at th.
C4_ConfusionPartition ==
    /\ ThresholdApplied =>
         SumSeq(df.TP) + SumSeq(df.TN) + SumSeq(df.FP) + SumSeq(df.FN)
            = Len(df.Signal)
    /\ pc \in { "flip", "save", "metrics", "done" } =>
         /\ tp + tn + fp + fn = Len(df.Signal)
         /\ Len(df.Signal) = Len(test_files)

\* Counts at th with three of the four kinds present.
C4_Witness ==
    /\ pc = "flip"
    /\ tp > 0
    /\ tn > 0
    /\ fp > 0

\* C5 as stated: no metric comes out nan; a zero denominator gives a
\* sentinel instead.
C5_MetricsGuarded ==
    pc = "done" =>
        /\ precision.den # 0
        /\ recall.den # 0
        /\ accuracy.den # 0
        /\ f1_score.den # 0

\* C6 as stated: when the features and the reconstruction differ in shape,
\* the iteration fails and records no reconstruction error.
C6_ShapeMismatchFails ==
    (index >= 1 /\ MatrixShape(eval_features) # ListShape(prediction)) =>
        /\ pc = "aborted"
        /\ Len(reconstruction_errors) < index

\* C7: the feature matrix has max(0, T - frames + 1) rows of n_mels * frames
\* columns each; a signal with T < frames gives zero rows.
C7_FeatureShape ==
    pc = "extracted" =>
        LET T == sigT[test_files[1]]
        IN  /\ Len(eval_features.rows) = Max(0, T - frames + 1)
            /\ eval_features.ncols = n_mels * frames
            /\ \A i \in 1..Len(eval_features.rows) :
                 Len(eval_features.rows[i]) = n_mels * frames
            /\ T < frames => eval_features.rows = << >>

\* A signal shorter than the window, extracted to no rows.
C7_Witness ==
    /\ pc = "extracted"
    /\ sigT[test_files[1]] >= 1
    /\ sigT[test_files[1]] < frames
    /\ eval_features.rows = << >>
    /\ eval_features.ncols > 1

\* C8: after the split and the filter no training path is an abnormal
\* path, every training label is 0 and there is one label per path.
C8_TrainingNormalOnly ==
    pc = "split_done" =>
        /\ Range(train_files) \cap Range(abnormal_files) = {}
        /\ \A i \in 1..Len(train_labels) : train_labels[i] = 0
        /\ Len(train_labels) = Len(train_files)

\* A finished split whose training side lost abnormal paths to the filter.
C8_Witness ==
    /\ pc = "split_done"
    /\ Len(train_files) >= 1
    /\ Len(train_files) + Len(test_files)
         < Len(normal_files) + Len(abnormal_files)

\* C9 as stated: in the saved table a row's ground truth is 0 for a normal
\* and 1 for an abnormal signal, and its prediction is 0 exactly when its
\* error is <= th.
C9_PersistedEncoding ==
    pc \in { "metrics", "done" } =>
        \A i \in 1..Len(csv.Signal) :
            /\ csv.GroundTruth[i] = test_labels[i]
            /\ (csv.Prediction[i] = 0) <=> ErrAtMost(i, th)
            /\ (csv.Prediction[i] = 1) <=> ~ ErrAtMost(i, th)

Degenerate(j) == sigT[test_files[j]] < frames

\* C10 as stated: a signal too short for a feature row is skipped: it does
\* not end the loop, it adds no reconstruction error, and every error
\* recorded is a number >= 0.
C10_DegenerateFiltered ==
    /\ (index >= 1 /\ Degenerate(index)) => pc # "aborted"
    /\ pc # "aborted" =>
         Len(reconstruction_errors)
            = Cardinality({ j \in 1..index : ~ Degenerate(j) })
    /\ \A j \in 1..Len(reconstruction_errors) :
         /\ reconstruction_errors[j].den > 0
         /\ reconstruction_errors[j].num >= 0

\* C11 as stated: in every session, whether train_data.pkl was loaded or
\* generated, the training matrix was made with exactly the n_mels, frames,
\* n_fft and hop_length the evaluation's feature extraction is given, so
\* both have the same number of columns.
C11_SameParameters ==
    pc = "extracted" =>
        /\ train_data.made_with
             = FeatureParameters(n_mels, frames, n_fft, hop_length)
        /\ train_data.ncols = eval_features.ncols
=============================================================================
